---- MODULE Spec2Model ----
(***************************************************************************)
(* Weighted-centre line follower (sToM-2.0.py): the control loop of main() *)
(* with its soft-start ramp, smoothing buffers, loss counter and shutdown  *)
(* path, and the pure functions it is built from; and the button-driven    *)
(* start/stop of the line follower of ph.py.                               *)
(*                                                                         *)
(* Numbers.  The program computes with Python floats.  The model computes  *)
(* with exact rationals <<num, den>> (den > 0, lowest terms), so equal     *)
(* numbers are equal tuples.  The 1e-9 added to the sum in compute_center  *)
(* is smaller than every gap between two distinct numbers the model can    *)
(* form; it is modelled by its two observable effects (see DivEps and      *)
(* InDeadband), not by its digits.                                         *)
(***************************************************************************)
EXTENDS Integers, Sequences, FiniteSets, TLC

VARIABLES
    pc,          \* position of main(): start, ramp, setup, read, write, sleep, finally, exited
    monitor,     \* args.monitor
    speed,       \* args.speed
    gain,        \* args.gain
    ramp_k,      \* loop variable k of ramp()
    smooth_bufs, \* one buffer per sensor
    loss_cnt,    \* consecutive-loss counter
    vals,        \* smoothed values of the current cycle
    line_present,\* any(is_dark_like) of the current cycle
    center,      \* compute_center(vals) of the current cycle
    left,        \* left command of the current cycle
    right,       \* right command of the current cycle
    robot_value, \* last value written to robot.value
    stopped,     \* robot.stop() has been executed
    false_run,   \* history: consecutive cycles, up to the current one, with line_present false
    prev_loss,   \* history: loss_cnt at the start of the current cycle
    call,        \* arguments of the function under test (function specifications)
    ret,         \* its result
    exc,         \* exception raised and not caught: none, KeyboardInterrupt, IOError
    white_run,   \* history: consecutive cycles, up to the current one, with every normalized raw value >= THRESH
    ph           \* ph.py: state of main() and its button callbacks

vars == <<pc, monitor, speed, gain, ramp_k, smooth_bufs, loss_cnt, vals,
          line_present, center, left, right, robot_value, stopped,
          false_run, prev_loss, call, ret, exc, white_run, ph>>

----------------------------------------------------------------------------
(* Bounds of the model *)

MaxLoss == 8     \* cycles are explored while loss_cnt < MaxLoss
GridN   == 5     \* function inputs are the multiples of 1/GridN
MaxCalls == 5    \* calls of moving_average on one buffer
MaxSteps == 4    \* step counts passed to ramp
MaxReleases == 3 \* button releases in ph.py

----------------------------------------------------------------------------
(* Exact rational arithmetic standing for the float arithmetic *)

Abs(x) == IF x < 0 THEN -x ELSE x

RECURSIVE GCD(_, _)
GCD(a, b) == IF b = 0 THEN a ELSE GCD(b, a % b)

Rat(n, d) ==
    LET g == GCD(Abs(n), Abs(d))
        s == IF d < 0 THEN -1 ELSE 1
    IN  <<(s * n) \div g, (s * d) \div g>>

Zero == <<0, 1>>
One  == <<1, 1>>

RAdd(a, b) == Rat(a[1] * b[2] + b[1] * a[2], a[2] * b[2])
RNeg(a)    == <<-a[1], a[2]>>
RSub(a, b) == RAdd(a, RNeg(b))
RMul(a, b) == Rat(a[1] * b[1], a[2] * b[2])
RDiv(a, b) == Rat(a[1] * b[2], a[2] * b[1])
RLt(a, b)  == a[1] * b[2] < b[1] * a[2]
RLe(a, b)  == a[1] * b[2] <= b[1] * a[2]
RAbs(a)    == <<Abs(a[1]), a[2]>>

\* Python's two-argument max and min: the first argument wins a tie.
PyMax(a, b) == IF RLt(a, b) THEN b ELSE a
PyMin(a, b) == IF RLt(b, a) THEN b ELSE a

RECURSIVE RSum(_)
RSum(s) == IF s = <<>> THEN Zero ELSE RAdd(Head(s), RSum(Tail(s)))

----------------------------------------------------------------------------
(* Tuning parameters of sToM-2.0.py *)

SENSOR_CHANNELS  == <<0, 1, 2, 3>>
WHITE_IS_HIGH    == TRUE
THRESH           == Rat(55, 100)
SMOOTH_N         == 4
BASE_SPEED       == Rat(45, 100)
STEER_GAIN       == Rat(8, 10)
DEADBAND         == Rat(5, 100)
LOSS_COUNT_LIMIT == 6
RAMP_STEPS       == 12

----------------------------------------------------------------------------
(* The pure functions *)

normalize(raw, white_is_high) ==
    IF white_is_high THEN raw ELSE RSub(One, raw)

fmean(buf) == RDiv(RSum(buf), Rat(Len(buf), 1))

\* moving_average that never evicts.
moving_average_buf_no_evict(buf, new_val, n) ==
    IF n <= 1 THEN buf ELSE Append(buf, new_val)

\* moving_average that evicts the newest value (pop() for pop(0)).
moving_average_buf_pop_last(buf, new_val, n) ==
    IF n <= 1 THEN buf
    ELSE LET b == Append(buf, new_val)
         IN  IF Len(b) > n THEN SubSeq(b, 1, Len(b) - 1) ELSE b

\* moving_average that appends before it looks at n.
moving_average_buf_always_appends(buf, new_val, n) ==
    LET b == Append(buf, new_val)
    IN  IF n <= 1 THEN b ELSE IF Len(b) > n THEN Tail(b) ELSE b

\* The buffer after moving_average(buf, new_val, n).
moving_average_buf(buf, new_val, n) ==
    IF n <= 1 THEN buf
    ELSE LET b == Append(buf, new_val)
         IN  IF Len(b) > n THEN Tail(b) ELSE b

\* moving_average that takes the mean before it appends the new value.
moving_average_stale(buf, new_val, n) ==
    IF n <= 1 \/ buf = <<>> THEN new_val ELSE fmean(buf)

\* The value moving_average(buf, new_val, n) returns.
moving_average(buf, new_val, n) ==
    IF n <= 1 THEN new_val
    ELSE fmean(moving_average_buf(buf, new_val, n))

\* wv / (sv + 1e-9) for sv >= 0: the epsilon keeps an all-zero vector from
\* dividing by zero (0 / 1e-9 = 0) and is otherwise below the model's
\* resolution.
DivEps(wv, sv) == IF sv = Zero THEN Zero ELSE RDiv(wv, sv)

\* abs(wv / (sv + 1e-9)) < DEADBAND for sv >= 0.  That is
\* |wv| < DEADBAND*sv + DEADBAND*1e-9, and the last term is positive and
\* smaller than any gap between |wv| and DEADBAND*sv, so equality counts as
\* inside the deadband.
InDeadband(wv, sv) == RLe(RAbs(wv), RMul(DEADBAND, sv))

\* compute_center without the deadband.
compute_center_no_deadband(values) ==
    LET n == Len(values) IN
    IF n = 1 THEN Zero
    ELSE
      LET half    == Rat(n - 1, 2)
          weights == [i \in 1..n |-> RDiv(RSub(Rat(i - 1, 1), half), half)]
          sv      == RSum(values)
          wv      == RSum([i \in 1..n |-> RMul(weights[i], values[i])])
      IN  PyMax(RNeg(One), PyMin(One, DivEps(wv, sv)))

compute_center(values) ==
    LET n == Len(values) IN
    IF n = 1 THEN Zero
    ELSE
      LET half    == Rat(n - 1, 2)
          weights == [i \in 1..n |-> RDiv(RSub(Rat(i - 1, 1), half), half)]
          sv      == RSum(values)
          wv      == RSum([i \in 1..n |-> RMul(weights[i], values[i])])
          c0      == DivEps(wv, sv)
          c1      == IF InDeadband(wv, sv) THEN Zero ELSE c0
      IN  PyMax(RNeg(One), PyMin(One, c1))

\* mix_to_motors without the clipping.
mix_to_motors_unclipped(base_speed, steer, gain_) ==
    LET diff == RMul(gain_, steer)
    IN  <<RSub(base_speed, diff), RAdd(base_speed, diff)>>

\* mix_to_motors with the difference applied to the wrong wheels.
mix_to_motors_swapped(base_speed, steer, gain_) ==
    LET diff == RMul(gain_, steer)
        l0   == RAdd(base_speed, diff)
        r0   == RSub(base_speed, diff)
    IN  <<PyMax(RNeg(One), PyMin(One, l0)), PyMax(RNeg(One), PyMin(One, r0))>>

mix_to_motors(base_speed, steer, gain_) ==
    LET diff == RMul(gain_, steer)
        l0   == RSub(base_speed, diff)
        r0   == RAdd(base_speed, diff)
    IN  <<PyMax(RNeg(One), PyMin(One, l0)), PyMax(RNeg(One), PyMin(One, r0))>>

\* ramp counting its steps from 0 (range(steps) for range(1, steps+1)).
ramp_value_from_zero(target_left, target_right, k, steps) ==
    LET a == Rat(k - 1, steps)
    IN  <<RMul(target_left, a), RMul(target_right, a)>>

\* The values of k in ramp(): range(1, steps+1).
ramp_range(steps) == 1..steps

\* The value ramp() writes at step k.
ramp_value(target_left, target_right, k, steps) ==
    LET a == Rat(k, steps)
    IN  <<RMul(target_left, a), RMul(target_right, a)>>

----------------------------------------------------------------------------
(* main(): inputs *)

\* Command-line values of --speed and --gain, in and out of their ranges.
Speeds == {BASE_SPEED, Rat(3, 2)}
Gains  == {STEER_GAIN, Rat(-3, 1)}

\* Raw readings of the four sensors in one cycle (left to right): all white,
\* line under the left pair, line under the right pair, and a faint shade
\* under the rightmost sensor that stays above THRESH.
Readings == { <<One, One, One, One>>,
              <<Zero, Zero, One, One>>,
              <<One, One, Zero, Zero>>,
              <<One, One, One, Rat(3, 5)>> }

NumSensors == Len(SENSOR_CHANNELS)

Stop == <<Zero, Zero>>

----------------------------------------------------------------------------
(* main(): the steps of one cycle *)

\* 2) line presence: any smoothed value below THRESH.
any_dark_like(vs) == \E i \in 1..Len(vs) : RLt(vs[i], THRESH)

\* Speed synthesis that drives in monitor mode.
speed_synthesis_no_monitor(mon, present, cnt, spd, ctr, gn) ==
    IF ~present
    THEN [left |-> Zero, right |-> Zero, loss_cnt |-> cnt + 1]
    ELSE LET m == mix_to_motors(spd, ctr, gn)
         IN  [left |-> m[1], right |-> m[2], loss_cnt |-> 0]

\* Speed synthesis that keeps mixing while the line is not seen.
speed_synthesis_blind(mon, present, cnt, spd, ctr, gn) ==
    IF mon
    THEN [left |-> Zero, right |-> Zero, loss_cnt |-> cnt + 1]
    ELSE LET m == mix_to_motors(spd, ctr, gn)
         IN  [left |-> m[1], right |-> m[2],
              loss_cnt |-> IF present THEN 0 ELSE cnt + 1]

\* Speed synthesis whose emergency stop latches: once the limit is reached
\* the counter is never reset.
speed_synthesis_latched(mon, present, cnt, spd, ctr, gn) ==
    IF mon \/ ~present \/ cnt >= LOSS_COUNT_LIMIT
    THEN [left |-> Zero, right |-> Zero, loss_cnt |-> cnt + 1]
    ELSE LET m == mix_to_motors(spd, ctr, gn)
         IN  [left |-> m[1], right |-> m[2], loss_cnt |-> 0]

\* Speed synthesis that forgets to reset the counter when the line is seen.
speed_synthesis_no_reset(mon, present, cnt, spd, ctr, gn) ==
    IF mon \/ ~present
    THEN [left |-> Zero, right |-> Zero, loss_cnt |-> cnt + 1]
    ELSE LET m == mix_to_motors(spd, ctr, gn)
         IN  [left |-> m[1], right |-> m[2], loss_cnt |-> cnt]

\* 4) speed synthesis: the commands and the loss counter after the if/else.
speed_synthesis(mon, present, cnt, spd, ctr, gn) ==
    IF mon \/ ~present
    THEN [left |-> Zero, right |-> Zero, loss_cnt |-> cnt + 1]
    ELSE LET m == mix_to_motors(spd, ctr, gn)
         IN  [left |-> m[1], right |-> m[2], loss_cnt |-> 0]

\* 5) full stop while the loss lasts.
loss_override(cnt, l, r) ==
    IF cnt >= LOSS_COUNT_LIMIT THEN <<Zero, Zero>> ELSE <<l, r>>

----------------------------------------------------------------------------
(* main(): the state machine *)

\* ph.py is not running.
PhUnused == [is_running |-> FALSE, source |-> "None", value |-> Stop,
             button |-> "up", releases |-> 0]

InitLocals ==
    /\ ramp_k = 0
    /\ smooth_bufs = [i \in 1..NumSensors |-> <<>>]
    /\ loss_cnt = 0
    /\ vals = [i \in 1..NumSensors |-> Zero]
    /\ line_present = FALSE
    /\ center = Zero
    /\ left = Zero
    /\ right = Zero
    /\ robot_value = Stop
    /\ stopped = FALSE
    /\ false_run = 0
    /\ prev_loss = 0
    /\ exc = "none"
    /\ white_run = 0

\* The state after parse_args() and the construction of sensors and robot.
Init ==
    /\ pc = "start"
    /\ monitor \in BOOLEAN
    /\ speed \in Speeds
    /\ gain \in Gains
    /\ InitLocals
    /\ ph = PhUnused
    /\ call = <<>>
    /\ ret = <<>>

\* if not args.monitor: ramp(...)
SoftStart ==
    /\ pc = "start"
    /\ IF monitor
       THEN pc' = "setup" /\ ramp_k' = ramp_k
       ELSE pc' = "ramp" /\ ramp_k' = 1
    /\ UNCHANGED <<monitor, speed, gain, smooth_bufs, loss_cnt, vals,
                   line_present, center, left, right, robot_value, stopped,
                   false_run, prev_loss, call, ret,
                   exc, white_run, ph>>

\* One iteration of ramp(robot, 0.0, 0.0, t_ramp=0.2): the write and the sleep.
RampStep ==
    /\ pc = "ramp"
    /\ robot_value' = ramp_value(Zero, Zero, ramp_k, RAMP_STEPS)
    /\ IF ramp_k < RAMP_STEPS
       THEN pc' = "ramp" /\ ramp_k' = ramp_k + 1
       ELSE pc' = "setup" /\ ramp_k' = ramp_k
    /\ UNCHANGED <<monitor, speed, gain, smooth_bufs, loss_cnt, vals,
                   line_present, center, left, right, stopped,
                   false_run, prev_loss, call, ret,
                   exc, white_run, ph>>

\* smooth_bufs, loss_cnt, period and the banner, then entry of the try block.
Setup ==
    /\ pc = "setup"
    /\ smooth_bufs' = [i \in 1..NumSensors |-> <<>>]
    /\ loss_cnt' = 0
    /\ pc' = "read"
    /\ UNCHANGED <<monitor, speed, gain, ramp_k, vals, line_present, center,
                   left, right, robot_value, stopped, false_run, prev_loss,
                   call, ret,
                   exc, white_run, ph>>

\* Steps 1) to 5) of a cycle: read, normalize, smooth, presence, centre,
\* speed synthesis, loss override.
Compute ==
    /\ pc = "read"
    /\ loss_cnt < MaxLoss
    /\ \E raw_vals \in Readings :
         LET nv   == [i \in 1..NumSensors |-> normalize(raw_vals[i], WHITE_IS_HIGH)]
             sm   == [i \in 1..NumSensors |->
                        moving_average(smooth_bufs[i], nv[i], SMOOTH_N)]
             pres == any_dark_like(sm)
             ctr  == compute_center(sm)
             syn  == speed_synthesis(monitor, pres, loss_cnt, speed, ctr, gain)
             out  == loss_override(syn.loss_cnt, syn.left, syn.right)
         IN  /\ smooth_bufs' = [i \in 1..NumSensors |->
                                  moving_average_buf(smooth_bufs[i], nv[i], SMOOTH_N)]
             /\ vals' = sm
             /\ line_present' = pres
             /\ center' = ctr
             /\ loss_cnt' = syn.loss_cnt
             /\ left' = out[1]
             /\ right' = out[2]
             /\ false_run' = IF pres THEN 0 ELSE false_run + 1
             /\ prev_loss' = loss_cnt
             /\ white_run' = IF \A i \in 1..NumSensors : ~RLt(nv[i], THRESH)
                              THEN white_run + 1 ELSE 0
    /\ pc' = "write"
    /\ UNCHANGED <<monitor, speed, gain, ramp_k, robot_value, stopped, call, ret,
                   exc, ph>>

\* robot.value = (left, right) and the console line.
Actuate ==
    /\ pc = "write"
    /\ robot_value' = <<left, right>>
    /\ pc' = "sleep"
    /\ UNCHANGED <<monitor, speed, gain, ramp_k, smooth_bufs, loss_cnt, vals,
                   line_present, center, left, right, stopped, false_run,
                   prev_loss, call, ret,
                   exc, white_run, ph>>

\* time.sleep(period)
Sleep ==
    /\ pc = "sleep"
    /\ pc' = "read"
    /\ UNCHANGED <<monitor, speed, gain, ramp_k, smooth_bufs, loss_cnt, vals,
                   line_present, center, left, right, robot_value, stopped,
                   false_run, prev_loss, call, ret,
                   exc, white_run, ph>>

InTry == pc \in {"read", "write", "sleep"}

\* Ctrl+C.  Inside the try block the except clause swallows it and the
\* finally clause runs; before the try block nothing catches it and main()
\* is left with the exception.
KeyboardInterrupt ==
    /\ pc \in {"start", "ramp", "setup", "read", "write", "sleep"}
    /\ pc' = IF InTry THEN "finally" ELSE "exited"
    /\ exc' = IF InTry THEN "none" ELSE "KeyboardInterrupt"
    /\ UNCHANGED <<monitor, speed, gain, ramp_k, smooth_bufs, loss_cnt, vals,
                   line_present, center, left, right, robot_value, stopped,
                   false_run, prev_loss, call, ret, white_run, ph>>

\* A sensor read (s.value) or an actuator write (robot.value = ...) raises.
\* No except clause matches: inside the try block the finally clause runs
\* and the exception leaves main(); in the ramp it leaves main() at once.
IOFailure ==
    /\ pc \in {"ramp", "read", "write"}
    /\ pc' = IF InTry THEN "finally" ELSE "exited"
    /\ exc' = "IOError"
    /\ UNCHANGED <<monitor, speed, gain, ramp_k, smooth_bufs, loss_cnt, vals,
                   line_present, center, left, right, robot_value, stopped,
                   false_run, prev_loss, call, ret, white_run, ph>>

\* finally: robot.stop()
Finally ==
    /\ pc = "finally"
    /\ robot_value' = Stop
    /\ stopped' = TRUE
    /\ pc' = "exited"
    /\ UNCHANGED <<monitor, speed, gain, ramp_k, smooth_bufs, loss_cnt, vals,
                   line_present, center, left, right, false_run, prev_loss,
                   call, ret,
                   exc, white_run, ph>>

Next ==
    \/ SoftStart
    \/ RampStep
    \/ Setup
    \/ Compute
    \/ Actuate
    \/ Sleep
    \/ KeyboardInterrupt
    \/ IOFailure
    \/ Finally

Spec == Init /\ [][Next]_vars

----------------------------------------------------------------------------
(* The pure functions on their own: the arguments are drawn in the initial *)
(* state and one step applies the function.                                *)

GridVals == {Rat(k, GridN) : k \in 0..GridN}

\* Normalized sensor vectors of one to NumSensors channels.
CenterInputs == UNION {[1..n -> GridVals] : n \in 1..NumSensors}

InitCenter ==
    /\ pc = "call_center"
    /\ call \in CenterInputs
    /\ ret = <<>>
    /\ monitor = FALSE
    /\ speed = BASE_SPEED
    /\ gain = STEER_GAIN
    /\ InitLocals
    /\ ph = PhUnused

CallCenter ==
    /\ pc = "call_center"
    /\ ret' = compute_center(call)
    /\ pc' = "ret_center"
    /\ UNCHANGED <<monitor, speed, gain, ramp_k, smooth_bufs, loss_cnt, vals,
                   line_present, center, left, right, robot_value, stopped,
                   false_run, prev_loss, call,
                   exc, white_run, ph>>

NextCenter == CallCenter

SpecCenter == InitCenter /\ [][NextCenter]_vars

\* <<base_speed, steer, gain>>: base speeds in [-2, 2], steer in [-1, 1],
\* gains in [0, 3].
MixInputs ==
    {<<Rat(b, GridN), Rat(s, GridN), Rat(g, GridN)>> :
        b \in (-2 * GridN)..(2 * GridN), s \in (-GridN)..GridN, g \in 0..(3 * GridN)}

InitMix ==
    /\ pc = "call_mix"
    /\ call \in MixInputs
    /\ ret = <<>>
    /\ monitor = FALSE
    /\ speed = BASE_SPEED
    /\ gain = STEER_GAIN
    /\ InitLocals
    /\ ph = PhUnused

CallMix ==
    /\ pc = "call_mix"
    /\ ret' = mix_to_motors(call[1], call[2], call[3])
    /\ pc' = "ret_mix"
    /\ UNCHANGED <<monitor, speed, gain, ramp_k, smooth_bufs, loss_cnt, vals,
                   line_present, center, left, right, robot_value, stopped,
                   false_run, prev_loss, call,
                   exc, white_run, ph>>

NextMix == CallMix

SpecMix == InitMix /\ [][NextMix]_vars

\* moving_average called repeatedly on one buffer.  call holds the window
\* size n, the buffer as it was before the first call (buf0), the buffer
\* (buf) and the values passed so far (hist); ret is the value returned by
\* the last call.
MAVals == {Rat(k, 1) : k \in 1..5}

MAWindows == 0..SMOOTH_N

\* Buffers a caller may pass with filtering disabled.
MABufs == {<<>>, <<Rat(3, 1)>>, <<Rat(1, 1), Rat(5, 1)>>}

InitMA ==
    /\ pc = "call_ma"
    /\ call \in {[n |-> w, buf0 |-> b, buf |-> b, hist |-> <<>>] :
                    w \in MAWindows, b \in MABufs}
    /\ call.n > 1 => call.buf0 = <<>>
    /\ ret = <<>>
    /\ monitor = FALSE
    /\ speed = BASE_SPEED
    /\ gain = STEER_GAIN
    /\ InitLocals
    /\ ph = PhUnused

CallMovingAverage ==
    /\ pc = "call_ma"
    /\ Len(call.hist) < MaxCalls
    /\ \E new_val \in MAVals :
         /\ ret' = moving_average(call.buf, new_val, call.n)
         /\ call' = [call EXCEPT
                        !.buf = moving_average_buf(call.buf, new_val, call.n),
                        !.hist = Append(@, new_val)]
    /\ UNCHANGED <<pc, monitor, speed, gain, ramp_k, smooth_bufs, loss_cnt,
                   vals, line_present, center, left, right, robot_value,
                   stopped, false_run, prev_loss,
                   exc, white_run, ph>>

NextMA == CallMovingAverage

SpecMA == InitMA /\ [][NextMA]_vars

\* One invocation of ramp(robot, target_left, target_right, t_ramp, steps).
\* call holds the arguments, ramp_k the last value of k, ret the values
\* written to robot.value so far.
RampTargets == {Zero, Rat(1, 2), RNeg(One), BASE_SPEED}

InitRamp ==
    /\ pc = "call_ramp"
    /\ call \in {[target_left |-> l, target_right |-> r, steps |-> n] :
                    l \in RampTargets, r \in RampTargets, n \in 0..MaxSteps}
    /\ ret = <<>>
    /\ monitor = FALSE
    /\ speed = BASE_SPEED
    /\ gain = STEER_GAIN
    /\ InitLocals
    /\ ph = PhUnused

\* One iteration of the for loop (the write and the sleep), or its end.
RampIter ==
    /\ pc = "call_ramp"
    /\ IF ramp_k + 1 \in ramp_range(call.steps)
       THEN /\ ramp_k' = ramp_k + 1
            /\ robot_value' = ramp_value(call.target_left, call.target_right,
                                         ramp_k + 1, call.steps)
            /\ ret' = Append(ret, robot_value')
            /\ pc' = pc
       ELSE /\ pc' = "ret_ramp"
            /\ UNCHANGED <<ramp_k, robot_value, ret>>
    /\ UNCHANGED <<monitor, speed, gain, smooth_bufs, loss_cnt, vals,
                   line_present, center, left, right, stopped, false_run,
                   prev_loss, call,
                   exc, white_run, ph>>

NextRamp == RampIter

SpecRamp == InitRamp /\ [][NextRamp]_vars

----------------------------------------------------------------------------
(* ph.py: the line follower started and stopped by a button.  ph holds     *)
(* is_running, motors.source ("line_follow" or "None"), motors.value, the  *)
(* button (up, down, held) and the number of releases so far.              *)

clamped(v) == PyMax(RNeg(One), PyMin(One, v))

mat_A == << <<Rat(4, 10), Rat(3, 10), Rat(2, 10), Rat(1, 10)>>,
            <<Rat(1, 10), Rat(2, 10), Rat(3, 10), Rat(4, 10)>> >>

\* LineFollower.prs2mtrs for the photoreflector values vec_x.
prs2mtrs(vec_x) ==
    LET dot(row) == RSum([i \in 1..Len(vec_x) |-> RMul(row[i], vec_x[i])])
    IN  <<clamped(dot(mat_A[1])), clamped(dot(mat_A[2]))>>

\* Photoreflector values of one read.
PhReadings == [1..4 -> {Zero, One}]

\* toggle_control(), the when_released callback.  The else branch assigns
\* is_runnning (sic), a new local name; the nonlocal is_running is left as
\* it was.
toggle_control(st, is_held) ==
    IF is_held THEN st
    ELSE IF st.is_running
         THEN [st EXCEPT !.source = "None", !.value = Stop, !.is_running = FALSE]
         ELSE [st EXCEPT !.source = "line_follow"]

\* main() up to pause(): is_running = False and motors.source already set.
InitPh ==
    /\ pc = "pause"
    /\ ph = [is_running |-> FALSE, source |-> "line_follow", value |-> Stop,
             button |-> "up", releases |-> 0]
    /\ call = <<>>
    /\ ret = <<>>
    /\ monitor = FALSE
    /\ speed = BASE_SPEED
    /\ gain = STEER_GAIN
    /\ InitLocals

PhUnchanged ==
    UNCHANGED <<monitor, speed, gain, ramp_k, smooth_bufs, loss_cnt, vals,
                line_present, center, left, right, robot_value, stopped,
                false_run, prev_loss, call, ret, exc, white_run>>

\* The source thread of gpiozero: motors.value = next(motors.source).
PhSourceTick ==
    /\ pc = "pause"
    /\ ph.source = "line_follow"
    /\ \E vec_x \in PhReadings : ph' = [ph EXCEPT !.value = prs2mtrs(vec_x)]
    /\ pc' = pc
    /\ PhUnchanged

PhPress ==
    /\ pc = "pause"
    /\ ph.button = "up"
    /\ ph.releases < MaxReleases
    /\ ph' = [ph EXCEPT !.button = "down"]
    /\ pc' = pc
    /\ PhUnchanged

\* The button has been down for HOLD_TIME: when_held = shutdown.
PhHeld ==
    /\ pc = "pause"
    /\ ph.button = "down"
    /\ ph' = [ph EXCEPT !.button = "held"]
    /\ pc' = "poweroff"
    /\ PhUnchanged

\* The button is released before HOLD_TIME: when_released = toggle_control.
PhRelease ==
    /\ pc = "pause"
    /\ ph.button = "down"
    /\ ph' = [toggle_control(ph, FALSE) EXCEPT
                 !.button = "up", !.releases = ph.releases + 1]
    /\ pc' = pc
    /\ PhUnchanged

NextPh ==
    \/ PhSourceTick
    \/ PhPress
    \/ PhHeld
    \/ PhRelease

SpecPh == InitPh /\ [][NextPh]_vars

----------------------------------------------------------------------------
(* Properties *)

AfterCompute == pc \in {"write", "sleep"}

InRange(x) == RLe(RNeg(One), x) /\ RLe(x, One)

\* C1: every run that ends by an operator interrupt raised after the motor
\* actuator was created executes robot.stop() before main() is left.
C1_StopBeforeExit == pc = "exited" => stopped

\* C2: the emergency-stop condition (loss_cnt >= LOSS_COUNT_LIMIT) holds after
\* a cycle exactly when that cycle is at least the LOSS_COUNT_LIMIT-th of a
\* run of consecutive cycles without line presence, never after fewer, and
\* while it holds the command of the cycle is (0,0).
C2_EmergencyStopAtLimit ==
    AfterCompute =>
        /\ (loss_cnt >= LOSS_COUNT_LIMIT) <=> (false_run >= LOSS_COUNT_LIMIT)
        /\ loss_cnt >= LOSS_COUNT_LIMIT => left = Zero /\ right = Zero

\* C3: after every cycle, in every run configuration, the loss counter is the
\* number of immediately preceding consecutive cycles, the current one
\* included, without line presence (0 after a cycle with presence).
C3_CounterIsLossRun == AfterCompute => loss_cnt = false_run

\* C4: in monitor mode every value written to the actuator, at startup and in
\* every cycle, is (0,0), and the centre of the smoothed values is still
\* computed in every cycle.
C4_MonitorWritesZero ==
    monitor =>
        /\ robot_value = Stop
        /\ AfterCompute =>
              left = Zero /\ right = Zero /\ center = compute_center(vals)

C4_Witness ==
    monitor /\ pc = "sleep" /\ any_dark_like(vals) /\ center # Zero

\* C5: in every cycle in which no smoothed value is below THRESH the command
\* of the cycle, and the value written to the actuator, is (0,0), whatever
\* the centre, the base speed, the gain and the loss counter.
C5_NoPresenceWritesZero ==
    (AfterCompute /\ ~any_dark_like(vals)) =>
        /\ left = Zero /\ right = Zero
        /\ pc = "sleep" => robot_value = Stop

C5_Witness ==
    /\ pc = "sleep" /\ ~monitor /\ ~any_dark_like(vals)
    /\ center # Zero /\ loss_cnt = 1 /\ robot_value = Stop

\* C6: outside monitor mode a cycle with line presence resets the loss
\* counter to 0 from any value, values at or above LOSS_COUNT_LIMIT included,
\* and the command of that same cycle, and the value written, is the
\* steering mixer's output.
C6_RecoversOnPresence ==
    (AfterCompute /\ ~monitor /\ line_present) =>
        /\ loss_cnt = 0
        /\ <<left, right>> = mix_to_motors(speed, center, gain)
        /\ pc = "sleep" => robot_value = mix_to_motors(speed, center, gain)

C6_Witness ==
    /\ pc = "sleep" /\ ~monitor /\ line_present
    /\ prev_loss >= LOSS_COUNT_LIMIT /\ loss_cnt = 0 /\ robot_value # Stop

\* C7: every command written to the actuator, by the ramp and by every
\* cycle, has both components in [-1,1], for base speeds and gains in and
\* out of their ranges.
C7_CommandsInRange ==
    /\ InRange(robot_value[1]) /\ InRange(robot_value[2])
    /\ AfterCompute => InRange(left) /\ InRange(right)

C7_Witness ==
    /\ pc = "sleep" /\ ~monitor /\ line_present
    /\ RLt(gain, Zero) /\ center # Zero
    /\ robot_value \in {<<One, RNeg(One)>>, <<RNeg(One), One>>}

\* The readings of the left half of the array sum to less than those of the
\* right half: the line-like (lower) readings are on the left.
LeftLower(v) ==
    LET h == Len(v) \div 2
    IN  RLt(RSum(SubSeq(v, 1, h)), RSum(SubSeq(v, Len(v) - h + 1, Len(v))))

RightLower(v) ==
    LET h == Len(v) \div 2
    IN  RLt(RSum(SubSeq(v, Len(v) - h + 1, Len(v))), RSum(SubSeq(v, 1, h)))

\* C8: for a 4-channel vector with a non-zero result, compute_center is
\* negative when the left channels read lower than the right channels (line
\* on the left) and positive when the right channels read lower.
C8_SignFollowsLineSide ==
    (pc = "ret_center" /\ Len(call) = NumSensors /\ ret # Zero) =>
        /\ LeftLower(call) => RLt(ret, Zero)
        /\ RightLower(call) => RLt(Zero, ret)

\* v reads the same from both ends.
Mirror(v) == \A i \in 1..Len(v) : v[i] = v[Len(v) + 1 - i]

\* C9: compute_center returns exactly 0 for every single-element vector and
\* for every vector that is mirror-symmetric about the midpoint, and every
\* value it returns is 0 or has magnitude in [DEADBAND, 1].
C9_ZeroOrBeyondDeadband ==
    pc = "ret_center" =>
        /\ Len(call) = 1 => ret = Zero
        /\ Mirror(call) => ret = Zero
        /\ \/ ret = Zero
           \/ RLe(DEADBAND, RAbs(ret)) /\ RLe(RAbs(ret), One)

C9_Witness ==
    /\ pc = "ret_center" /\ Len(call) = NumSensors
    /\ Mirror(call) /\ call[1] # call[2] /\ ret = Zero

\* clamp(x, -1, 1)
Clamp1(x) == IF RLt(x, RNeg(One)) THEN RNeg(One) ELSE IF RLt(One, x) THEN One ELSE x

\* C10: for steer in [-1,1] and gain >= 0, mix_to_motors returns
\* (clamp(base - gain*steer), clamp(base + gain*steer)); with steer > 0 and
\* gain > 0 right is never below left, and is above it when base is in
\* [0,1]; negating steer swaps the two outputs.
C10_MixFormula ==
    pc = "ret_mix" =>
        LET b == call[1]
            st == call[2]
            g == call[3]
            d == RMul(g, st)
        IN  /\ ret = <<Clamp1(RSub(b, d)), Clamp1(RAdd(b, d))>>
            /\ (RLt(Zero, st) /\ RLt(Zero, g)) => RLe(ret[1], ret[2])
            /\ (RLt(Zero, st) /\ RLt(Zero, g) /\ RLe(Zero, b) /\ RLe(b, One))
                  => RLt(ret[1], ret[2])
            /\ mix_to_motors(b, RNeg(st), g) = <<ret[2], ret[1]>>

C10_Witness ==
    /\ pc = "ret_mix"
    /\ call = <<Rat(2, 5), One, Rat(3, 5)>>
    /\ ret = <<Rat(-1, 5), One>>

\* The last m elements of s.
LastOf(s, m) == SubSeq(s, Len(s) - m + 1, Len(s))

Min2(a, b) == IF a < b THEN a ELSE b

\* C11: for window size n > 1 and a buffer that starts empty, after k calls
\* the buffer holds exactly the last min(k, n) inputs in arrival order, so
\* its length never exceeds n.
C11_BufferIsLastInputs ==
    (pc = "call_ma" /\ call.n > 1) =>
        /\ call.buf = LastOf(call.hist, Min2(Len(call.hist), call.n))
        /\ Len(call.buf) <= call.n

C11_Witness ==
    /\ pc = "call_ma" /\ call.n = SMOOTH_N
    /\ Len(call.hist) = SMOOTH_N + 1
    /\ call.hist[1] # call.hist[2]
    /\ call.buf = Tail(call.hist)

\* C12: for window size n > 1 and a buffer that starts empty, the k-th call
\* returns the arithmetic mean of the last min(k, n) inputs.
C12_ReturnsWindowMean ==
    (pc = "call_ma" /\ call.n > 1 /\ call.hist # <<>>) =>
        LET m == Min2(Len(call.hist), call.n)
        IN  RMul(ret, Rat(m, 1)) = RSum(LastOf(call.hist, m))

\* Window 4 fed 1, 2, 3, 4, 5: the fifth call returns 3.5.
C12_Witness ==
    /\ pc = "call_ma" /\ call.n = 4
    /\ call.hist = <<Rat(1, 1), Rat(2, 1), Rat(3, 1), Rat(4, 1), Rat(5, 1)>>
    /\ ret = Rat(7, 2)

\* C13: with window size <= 1 every call returns the new value unchanged
\* and leaves the buffer as it was, whatever it holds and however many calls
\* are made.
C13_DisabledFilterIsIdentity ==
    (pc = "call_ma" /\ call.n <= 1) =>
        /\ call.buf = call.buf0
        /\ call.hist # <<>> => ret = call.hist[Len(call.hist)]

C13_Witness ==
    /\ pc = "call_ma" /\ call.n = 1 /\ call.buf0 # <<>>
    /\ Len(call.hist) = MaxCalls /\ call.buf = call.buf0
    /\ ret # call.buf0[1]

\* t * k / steps
Fraction(t, k, steps) == Rat(t[1] * k, t[2] * steps)

\* C14: for any target (L, R) and steps >= 1, one invocation of ramp writes
\* exactly `steps` commands, the k-th being (L*k/steps, R*k/steps) for
\* k = 1..steps in that order, the last one the target, and then ends.
C14_RampSequence ==
    (pc \in {"call_ramp", "ret_ramp"} /\ call.steps >= 1) =>
        /\ Len(ret) <= call.steps
        /\ \A k \in 1..Len(ret) :
              ret[k] = <<Fraction(call.target_left, k, call.steps),
                         Fraction(call.target_right, k, call.steps)>>
        /\ pc = "ret_ramp" =>
              /\ Len(ret) = call.steps
              /\ ret[call.steps] = <<call.target_left, call.target_right>>
              /\ robot_value = <<call.target_left, call.target_right>>

\* Target (0.5, 0.5) over 4 steps.
C14_Witness ==
    /\ pc = "ret_ramp"
    /\ call = [target_left |-> Rat(1, 2), target_right |-> Rat(1, 2), steps |-> 4]
    /\ ret = << <<Rat(1, 8), Rat(1, 8)>>, <<Rat(1, 4), Rat(1, 4)>>,
                <<Rat(3, 8), Rat(3, 8)>>, <<Rat(1, 2), Rat(1, 2)>> >>

InLoop == pc \in {"read", "write", "sleep"}

\* C15: in a non-monitor run the soft-start ramp runs once, before the first
\* sensor read and never after it, and takes the actuator from rest to the
\* commanded speed: its commands grow in magnitude from the first one on and
\* the last one is the base speed on both wheels.
C15_RampReachesBaseSpeed ==
    ~monitor =>
        /\ pc = "ramp" => \A i \in 1..NumSensors : smooth_bufs[i] = <<>>
        /\ InLoop => ramp_k = RAMP_STEPS
        /\ (pc = "ramp" /\ ramp_k >= 2 /\ speed # Zero) =>
              RLt(Zero, RAbs(robot_value[1])) /\ RLt(Zero, RAbs(robot_value[2]))
        /\ pc = "setup" => robot_value = <<speed, speed>>

\* --speed outside [0,1] or --gain below 0.
InvalidConfig ==
    \/ RLt(speed, Zero)
    \/ RLt(One, speed)
    \/ RLt(gain, Zero)

\* C16: with an invalid configuration main() stops at startup: the control
\* loop is never entered, so no cycle reads the sensors or writes the
\* actuator.
C16_InvalidConfigRejected == InvalidConfig => ~InLoop

\* C18: whenever the command of a cycle is about to be written, loss_cnt > 0
\* implies that the command chosen by the speed synthesis is already (0,0),
\* so the loss override never changes a command.
C18_OverrideChangesNothing ==
    AfterCompute =>
        LET syn == speed_synthesis(monitor, line_present, prev_loss,
                                   speed, center, gain)
        IN  /\ loss_cnt > 0 => left = Zero /\ right = Zero
            /\ loss_cnt > 0 => syn.left = Zero /\ syn.right = Zero
            /\ <<left, right>> = <<syn.left, syn.right>>

C18_Witness ==
    /\ pc = "write" /\ ~monitor /\ loss_cnt >= LOSS_COUNT_LIMIT
    /\ center # Zero /\ left = Zero /\ right = Zero

\* C17: a sensor read or an actuator write that fails in a cycle of the
\* control loop is handled as "line not present" (command (0,0), loss counter
\* incremented) and the loop goes on with the next cycle.
C17_IOFailureDegrades ==
    [][(InLoop /\ exc = "none" /\ exc' = "IOError") =>
          /\ InLoop'
          /\ loss_cnt' = loss_cnt + 1
          /\ robot_value' = Stop]_vars

\* C19: once the normalized raw readings of all channels have been >= THRESH
\* for SMOOTH_N consecutive cycles, line presence is false and the command
\* is (0,0), from the SMOOTH_N-th such cycle on, and from the
\* (SMOOTH_N + LOSS_COUNT_LIMIT - 1)-th such cycle on the emergency-stop
\* condition holds.
C19_BoundedLossResponse ==
    AfterCompute =>
        /\ white_run >= SMOOTH_N =>
              /\ ~line_present
              /\ left = Zero /\ right = Zero
              /\ pc = "sleep" => robot_value = Stop
        /\ white_run >= SMOOTH_N + LOSS_COUNT_LIMIT - 1 =>
              loss_cnt >= LOSS_COUNT_LIMIT

\* The line is still seen in the smoothed values for SMOOTH_N - 1 cycles
\* after the raw readings lost it, and the limit is reached exactly at the
\* last cycle the claim allows.
C19_Witness ==
    /\ pc = "sleep" /\ ~monitor
    /\ white_run = SMOOTH_N + LOSS_COUNT_LIMIT - 1
    /\ loss_cnt = LOSS_COUNT_LIMIT
    /\ robot_value = Stop

\* C20: releases of the button that are not holds alternate between stopping
\* and starting: a release while line following is running clears
\* motors.source, stops the motors and marks the controller not running, and
\* a release while it is stopped starts it and marks it running.
C20_ReleasesAlternate ==
    [][(ph'.releases = ph.releases + 1) =>
          IF ph.source = "line_follow"
          THEN ph'.source = "None" /\ ph'.value = Stop /\ ~ph'.is_running
          ELSE ph'.source = "line_follow" /\ ph'.is_running]_vars

====
